---- MODULE Spec2Model ----
(***************************************************************************)
(* spillDEM (src/src/main.cpp): priority-flood depression filling of a DEM *)
(* after Wang & Liu (2006), with the optional minimum-slope preservation   *)
(* and the derivation of a flow-direction grid.                            *)
(*                                                                         *)
(* Floats are modelled in fixed point: elevations and lengths are integer  *)
(* multiples of 1/Scale, so that sums, comparisons and the float -> int    *)
(* conversion of getFlowDir's z parameter are computed exactly.            *)
(***************************************************************************)
EXTENDS Integers, Sequences, FiniteSets, Bags, TLC

\* ------------------------------------------------------------------ bounds
\* The free cells of the input take the elevations ElevBase .. ElevBase +
\* MaxElev (in 1/Scale units).
MaxElev == 4
\* At most MaxNoData cells of the input carry the no-data value.
MaxNoData == 1

\* Fixed-point resolution: one unit of elevation or length is 1/Scale.
Scale == 3
ElevBase == 3

\* ------------------------------------------------------- program constants
\* double nodata = srcBand->GetNoDataValue();
nodata == 0 - 1

\* std::array<dir, 8> ngh
ngh == << [dx |-> 1, dy |-> 0],   [dx |-> 1, dy |-> -1], [dx |-> 0, dy |-> -1],
          [dx |-> -1, dy |-> -1], [dx |-> -1, dy |-> 0], [dx |-> -1, dy |-> 1],
          [dx |-> 0, dy |-> 1],   [dx |-> 1, dy |-> 1] >>

\* std::array<unsigned char, 9> ldd
ldd == << 6, 3, 2, 1, 4, 7, 8, 9, 0 >>

Dirs == 0 .. 7

\* Values of the -m option (degrees) the model draws from, and their tangent.
MinSlopeArgs == { 0 - 45, 0, 45 }
Tan(deg) == CASE deg = 45 -> 1
              [] deg = 0 -> 0
              [] deg = 0 - 45 -> 0 - 1

\* Pixel sizes (adfGeoTransform[1], adfGeoTransform[5]); a north-up raster
\* has a negative adfGeoTransform[5].
PixelSizes == { <<3, 4>>, <<3, 0 - 4>> }

\* Grid shapes <<xSize, ySize>>.
Dims == { <<1, 1>>, <<3, 3>>, <<4, 3>> }

\* The cells <<x, y>> whose raw value the model varies: an interior cell, the
\* edge cell north of it and the cell east of it (an edge cell on a 3-wide
\* raster, an interior cell on a wider one); every other cell carries a fixed
\* background.
FreeCells == { <<1, 0>>, <<1, 1>>, <<2, 1>> }

\* The cells <<x, y>> that may carry the no-data value instead: a hole inside
\* the raster, and a cell of the east edge of a 4-wide raster.
NoDataSites == { <<1, 1>>, <<3, 1>> }

\* std::sqrt on a perfect square (the pixel sizes above give 9 + 16 = 25).
Sqrt(v) == CHOOSE r \in 0 .. v : r * r <= v /\ (r + 1) * (r + 1) > v

VARIABLES
    xSize, ySize,          \* raster dimensions
    pixelSizeX, pixelSizeY,
    raw,                   \* the elevations as read from the source band
    elev,                  \* float *elev, filled in place
    minslope,              \* -m argument, then its tangent
    preserve, length, mindiff,
    queue,                 \* std::priority_queue<node>, a bag of nodes
    queued, processed, flowdir,
    current,               \* node current
    pc,                    \* position in main
    sx, sy,                \* cursor of the seeding loops
    parent,                \* history: who discovered a cell, in which direction
    pushes, pops, writes,  \* history: per-cell counts of push / pop / elev write
    npop,                  \* history: number of pops so far
    prevspill              \* history: spill of the pop before the current one

vars == << xSize, ySize, pixelSizeX, pixelSizeY, raw, elev, minslope, preserve,
           length, mindiff, queue, queued, processed, flowdir, current, pc,
           sx, sy, parent, pushes, pops, writes, npop, prevspill >>

config == << xSize, ySize, pixelSizeX, pixelSizeY, raw >>
hist == << parent, pushes, pops, writes, npop, prevspill >>

\* ----------------------------------------------------------------- helpers
getNeighbourX(x, d) == x + ngh[d + 1].dx
getNeighbourY(y, d) == y + ngh[d + 1].dy
getIndex(x, y) == y * xSize + x
isInBounds(x, y) == x >= 0 /\ x < xSize /\ y >= 0 /\ y < ySize

Cells == 0 .. (xSize * ySize - 1)
XOf(n) == n % xSize
YOf(n) == n \div xSize

\* node(spill, x, y)
node(spill, x, y) == [spill |-> spill, x |-> x, y |-> y]

\* float -> int conversion of a value held in 1/Scale units (truncation
\* toward zero), returned in the same units.
ToInt(v) == IF v >= 0 THEN (v \div Scale) * Scale
            ELSE 0 - (((0 - v) \div Scale) * Scale)

Abs(v) == IF v < 0 THEN 0 - v ELSE v
Sgn(v) == IF v < 0 THEN 0 - 1 ELSE 1

\* a / b > c / e for rationals with non-zero denominators
RatGreater(a, b, c, e) == a * Sgn(b) * Abs(e) > c * Sgn(e) * Abs(b)

NoParent == [c |-> 0 - 1, d |-> 0 - 1]

\* ------------------------------------------------------------------- input
Elevs == ElevBase .. (ElevBase + MaxElev)

\* Background of a raster of width w: three levels on a 3-wide raster (equal
\* spills meet in the queue, and an interior cell can top its whole ring), a
\* ramp on a wider one.
Background(n, w) == ElevBase + 1 + (IF w = 3 THEN n % 3 ELSE n)

RawGrids(w, h) ==
    { [n \in 0 .. (w * h - 1) |->
          IF << n % w, n \div w >> \in nd THEN nodata
          ELSE IF << n % w, n \div w >> \in FreeCells
          THEN f[<< n % w, n \div w >>] ELSE Background(n, w)] :
        f \in [FreeCells -> Elevs],
        nd \in { c \in SUBSET NoDataSites : Cardinality(c) <= MaxNoData } }

\* The state of main before the length tables are built, the input apart.
InitState ==
    /\ minslope \in MinSlopeArgs
    /\ elev = raw
    /\ preserve = FALSE
    /\ length = [d \in Dirs |-> 0]
    /\ mindiff = [d \in Dirs |-> 0]
    /\ queue = EmptyBag
    /\ queued = [n \in Cells |-> FALSE]
    /\ processed = [n \in Cells |-> FALSE]
    /\ flowdir = [n \in Cells |-> 0]
    /\ current = node(0, 0, 0)
    /\ pc = "config"
    /\ sx = 0
    /\ sy = 0
    /\ parent = [n \in Cells |-> NoParent]
    /\ pushes = [n \in Cells |-> 0]
    /\ pops = [n \in Cells |-> 0]
    /\ writes = [n \in Cells |-> 0]
    /\ npop = 0
    /\ prevspill = 0

Init ==
    /\ \E dm \in Dims :
         /\ xSize = dm[1]
         /\ ySize = dm[2]
         /\ raw \in RawGrids(dm[1], dm[2])
    /\ \E ps \in PixelSizes : pixelSizeX = ps[1] /\ pixelSizeY = ps[2]
    /\ InitState

\* The 5x5 raster of the pit scenario: the outer edge at elevation 5, the ring
\* of 8 cells inside it at 10, the centre at 0.
PitRaw ==
    [n \in 0 .. 24 |->
        IF n % 5 \in {0, 4} \/ n \div 5 \in {0, 4} THEN 5 * Scale
        ELSE IF n = 12 THEN 0 ELSE 10 * Scale]

InitPit ==
    /\ xSize = 5
    /\ ySize = 5
    /\ raw = PitRaw
    /\ \E ps \in PixelSizes : pixelSizeX = ps[1] /\ pixelSizeY = ps[2]
    /\ InitState

\* ------------------------------------------------- length / mindiff tables
LengthTable ==
    LET diaglength == Sqrt(pixelSizeX * pixelSizeX + pixelSizeY * pixelSizeY)
    IN  [d \in Dirs |-> CASE d \in {0, 4} -> pixelSizeX
                          [] d \in {2, 6} -> pixelSizeY
                          [] OTHER -> diaglength]

Preserve(ms) == ms > 0

Configure ==
    /\ pc = "config"
    /\ length' = LengthTable
    /\ IF Preserve(minslope)
       THEN /\ minslope' = Tan(minslope)
            /\ mindiff' = [d \in Dirs |-> Tan(minslope) * LengthTable[d]]
            /\ preserve' = TRUE
       ELSE /\ preserve' = FALSE
            /\ UNCHANGED << minslope, mindiff >>
    /\ pc' = "seeding"
    /\ UNCHANGED << config, elev, queue, queued, processed, flowdir, current,
                    sx, sy, hist >>

\* ---------------------------------------------------------------- seeding
\* Variant: the !isInBounds test is missing, so that only a no-data neighbour
\* makes a seed.
MutIsEdgeNoData(x, y) ==
    \E d \in Dirs :
        /\ isInBounds(getNeighbourX(x, d), getNeighbourY(y, d))
        /\ elev[getIndex(getNeighbourX(x, d), getNeighbourY(y, d))] = nodata

\* Variant: only the raster boundary makes a seed; a no-data neighbour does not.
MutIsEdgeBoundary(x, y) ==
    \E d \in Dirs : ~isInBounds(getNeighbourX(x, d), getNeighbourY(y, d))

\* The test of the inner for-d loop: does cell (x, y) touch the raster
\* boundary or a no-data cell?
IsEdge(x, y) ==
    \E d \in Dirs :
        LET nx == getNeighbourX(x, d)
            ny == getNeighbourY(y, d)
        IN  \/ ~isInBounds(nx, ny)
            \/ elev[getIndex(nx, ny)] = nodata

\* Variant: the no-data test written with the wrong comparison.
MutIsNoData(v) == v < nodata

IsNoData(v) == v = nodata

\* One iteration of the body of the two seeding loops, for cell (sx, sy).
SeedCell ==
    /\ pc = "seeding"
    /\ LET n == getIndex(sx, sy)
           z == elev[n]
       IN  IF IsNoData(elev[n])
           THEN /\ processed' = [processed EXCEPT ![n] = TRUE]
                /\ flowdir' = [flowdir EXCEPT ![n] = 255]
                /\ UNCHANGED << queue, queued, pushes >>
           ELSE IF IsEdge(sx, sy)
           THEN /\ flowdir' = [flowdir EXCEPT ![n] = 255]
                /\ queue' = queue (+) SetToBag({node(z, sx, sy)})
                /\ queued' = [queued EXCEPT ![n] = TRUE]
                /\ pushes' = [pushes EXCEPT ![n] = @ + 1]
                /\ UNCHANGED processed
           ELSE UNCHANGED << processed, flowdir, queue, queued, pushes >>
    /\ IF sy + 1 < ySize
       THEN sy' = sy + 1 /\ sx' = sx /\ pc' = pc
       ELSE IF sx + 1 < xSize
       THEN sy' = 0 /\ sx' = sx + 1 /\ pc' = pc
       ELSE sy' = sy /\ sx' = sx /\ pc' = "draining"
    /\ UNCHANGED << config, elev, minslope, preserve, length, mindiff, current,
                    parent, pops, writes, npop, prevspill >>

\* --------------------------------------------------------------- draining
\* getFlowDir(x, y, z): the parameter z is declared int, so the caller's
\* float spill is converted; el and pr are elev and processed at the call.
RECURSIVE FlowScan(_, _, _, _, _, _, _, _, _)
FlowScan(x, y, zi, el, pr, d, gnum, gden, dmax) ==
    IF d = 8 THEN dmax
    ELSE LET nx == getNeighbourX(x, d)
             ny == getNeighbourY(y, d)
             n  == getIndex(nx, ny)
         IN  IF isInBounds(nx, ny) /\ pr[n] /\ el[n] <= zi
                /\ RatGreater(zi - el[n], length[d], gnum, gden)
             THEN FlowScan(x, y, zi, el, pr, d + 1, zi - el[n], length[d], d)
             ELSE FlowScan(x, y, zi, el, pr, d + 1, gnum, gden, dmax)

getFlowDir(x, y, z, el, pr) == FlowScan(x, y, ToInt(z), el, pr, 0, 0 - 1, 1, 8)

\* Variant: the plain-mode comparison inverted, so that the lower of the two
\* elevations is kept.
MutSpillLower(nz, z, d) ==
    IF preserve
    THEN IF nz < z + mindiff[d] THEN z + mindiff[d] ELSE nz
    ELSE IF nz >= z THEN z ELSE nz

\* Variant: in plain mode the neighbour keeps its raw elevation (no fill).
MutSpillKeep(nz, z, d) ==
    IF preserve
    THEN IF nz < z + mindiff[d] THEN z + mindiff[d] ELSE nz
    ELSE nz

\* Variant: the neighbour always takes the level reached from the popped cell,
\* also when its own elevation is higher.
MutSpillLevel(nz, z, d) ==
    IF preserve THEN z + mindiff[d] ELSE z

\* The spill elevation given to an unprocessed neighbour of raw elevation nz,
\* reached in direction d from a cell of spill z.
SpillOf(nz, z, d) ==
    IF preserve
    THEN IF nz < z + mindiff[d] THEN z + mindiff[d] ELSE nz
    ELSE IF nz <= z THEN z ELSE nz

\* Is the neighbour's flow direction forced at discovery?
Forced(nz, z) == ~preserve /\ nz <= z

\* Variant: the code of the discovery direction itself, ldd[d].
MutOppositeSame(d) == ldd[d + 1]

\* ldd[(d+4)%8]
Opposite(d) == ldd[((d + 4) % 8) + 1]

\* Variant: the !queued[n] test is missing.
MutDiscoversQueued(x, y, d, qd, pr) ==
    LET nx == getNeighbourX(x, d)
        ny == getNeighbourY(y, d)
    IN  isInBounds(nx, ny) /\ ~pr[getIndex(nx, ny)]

\* Does the for-d loop of the popped cell act on its neighbour in direction d?
Discovers(x, y, d, qd, pr) ==
    LET nx == getNeighbourX(x, d)
        ny == getNeighbourY(y, d)
    IN  isInBounds(nx, ny) /\ ~qd[getIndex(nx, ny)] /\ ~pr[getIndex(nx, ny)]

\* Variant: the elevation is written before the !processed[n] test, so that it
\* also lands on neighbours that are already resolved.
MutDiscoverRewrite(st, x, y, z, d) ==
    LET nx == getNeighbourX(x, d)
        ny == getNeighbourY(y, d)
        n  == getIndex(nx, ny)
    IN  IF isInBounds(nx, ny) /\ ~st.queued[n]
        THEN LET nz == IF st.elev[n] <= z THEN z ELSE st.elev[n]
             IN  IF st.processed[n]
                 THEN [st EXCEPT !.elev   = [@ EXCEPT ![n] = nz],
                                 !.writes = [@ EXCEPT ![n] = @ + 1]]
                 ELSE [st EXCEPT
                         !.elev    = [@ EXCEPT ![n] = nz],
                         !.queue   = @ (+) SetToBag({node(nz, nx, ny)}),
                         !.queued  = [@ EXCEPT ![n] = TRUE],
                         !.parent  = [@ EXCEPT ![n] = [c |-> getIndex(x, y), d |-> d]],
                         !.pushes  = [@ EXCEPT ![n] = @ + 1],
                         !.writes  = [@ EXCEPT ![n] = @ + 1]]
        ELSE st

\* Variant: queued[n] is not set at the push, so that a later pop next to n
\* discovers it again.
MutDiscoverNoMark(st, x, y, z, d) ==
    LET nx == getNeighbourX(x, d)
        ny == getNeighbourY(y, d)
        n  == getIndex(nx, ny)
    IN  IF isInBounds(nx, ny) /\ ~st.queued[n] /\ ~st.processed[n]
        THEN LET nz == SpillOf(st.elev[n], z, d)
             IN  [st EXCEPT
                    !.flowdir = IF Forced(st.elev[n], z)
                                THEN [@ EXCEPT ![n] = Opposite(d)] ELSE @,
                    !.elev    = [@ EXCEPT ![n] = nz],
                    !.queue   = @ (+) SetToBag({node(nz, nx, ny)}),
                    !.parent  = [@ EXCEPT ![n] = [c |-> getIndex(x, y), d |-> d]],
                    !.pushes  = [@ EXCEPT ![n] = @ + 1],
                    !.writes  = [@ EXCEPT ![n] = @ + 1]]
        ELSE st

\* Body of the for-d loop for direction d, on the loop state st.
Discover(st, x, y, z, d) ==
    LET nx == getNeighbourX(x, d)
        ny == getNeighbourY(y, d)
        n  == getIndex(nx, ny)
    IN  IF Discovers(x, y, d, st.queued, st.processed)
        THEN LET nz == SpillOf(st.elev[n], z, d)
             IN  [st EXCEPT
                    !.flowdir = IF Forced(st.elev[n], z)
                                THEN [@ EXCEPT ![n] = Opposite(d)] ELSE @,
                    !.elev    = [@ EXCEPT ![n] = nz],
                    !.queue   = @ (+) SetToBag({node(nz, nx, ny)}),
                    !.queued  = [@ EXCEPT ![n] = TRUE],
                    !.parent  = [@ EXCEPT ![n] = [c |-> getIndex(x, y), d |-> d]],
                    !.pushes  = [@ EXCEPT ![n] = @ + 1],
                    !.writes  = [@ EXCEPT ![n] = @ + 1]]
        ELSE st

\* The for-d loop from direction d on; s is the loop state at the start of the
\* iteration.
RECURSIVE Expand(_, _, _, _, _)
Expand(st, x, y, z, d) ==
    IF d = 8 THEN st
    ELSE CHOOSE r \in { Expand(Discover(s, x, y, z, d), x, y, z, d + 1) :
                          s \in {st} } : TRUE

\* Variant: operator< compares the column instead of the spill.
MutIsTopByX(q) == \A r \in BagToSet(queue) : q.x <= r.x

\* Variant: operator< written the other way round (a max-heap).
MutIsTopMax(q) == \A r \in BagToSet(queue) : q.spill >= r.spill

\* queue.top(): an entry no other entry is ordered before (operator< compares
\* spill only; the order among equal spills is the heap's).
IsTop(q) == \A r \in BagToSet(queue) : q.spill <= r.spill

\* One iteration of while (!queue.empty()).
Drain ==
    /\ pc = "draining"
    /\ queue # EmptyBag
    /\ \E cur \in BagToSet(queue) :
         /\ IsTop(cur)
         /\ LET c   == getIndex(cur.x, cur.y)
                z   == cur.spill
                st0 == [elev |-> elev, flowdir |-> flowdir,
                        queue |-> queue (-) SetToBag({cur}),
                        queued |-> [queued EXCEPT ![c] = FALSE],
                        processed |-> [processed EXCEPT ![c] = TRUE],
                        parent |-> parent, pushes |-> pushes, writes |-> writes]
                st  == Expand(st0, cur.x, cur.y, z, 0)
            IN  /\ current' = cur
                /\ processed' = st.processed
                /\ queued' = st.queued
                /\ elev' = st.elev
                /\ queue' = st.queue
                /\ flowdir' = IF st.flowdir[c] = 0
                              THEN [st.flowdir EXCEPT ![c] =
                                      ldd[getFlowDir(cur.x, cur.y, z, st.elev,
                                                     st.processed) + 1]]
                              ELSE st.flowdir
                /\ parent' = st.parent
                /\ pushes' = st.pushes
                /\ writes' = st.writes
                /\ pops' = [pops EXCEPT ![c] = @ + 1]
                /\ npop' = npop + 1
                /\ prevspill' = current.spill
    /\ UNCHANGED << config, minslope, preserve, length, mindiff, pc, sx, sy >>

\* Variant: the loop stops while one entry is still queued.
MutFinishEarly ==
    /\ pc = "draining"
    /\ BagCardinality(queue) <= 1
    /\ pc' = "done"
    /\ UNCHANGED << config, elev, minslope, preserve, length, mindiff, queue,
                    queued, processed, flowdir, current, sx, sy, hist >>

\* The loop ends on an empty queue; both grids are written out.
Finish ==
    /\ pc = "draining"
    /\ queue = EmptyBag
    /\ pc' = "done"
    /\ UNCHANGED << config, elev, minslope, preserve, length, mindiff, queue,
                    queued, processed, flowdir, current, sx, sy, hist >>

Next == Configure \/ SeedCell \/ Drain \/ Finish

Spec == Init /\ [][Next]_vars

\* The inputs whose free cells carry the lowest or the highest elevation (a
\* pit or a peak each) or the no-data value.
InitExtreme ==
    /\ Init
    /\ \A c \in FreeCells :
         (c[1] < xSize /\ c[2] < ySize) =>
             raw[getIndex(c[1], c[2])] \in {nodata, ElevBase, ElevBase + MaxElev}

\* main is one sequential thread: a step that can be taken is taken.
FairSpec == InitExtreme /\ [][Next]_vars /\ WF_vars(Next)

\* The pit scenario.  Its 16 edge seeds carry one spill, so the orders in
\* which a heap may yield them are too many to enumerate; of the entries that
\* are on top together, the run pops the one of lowest or the one of highest
\* cell index, at each pop anew.
PitTieOrder ==
    LET ties == { getIndex(q.x, q.y) : q \in { r \in BagToSet(queue) : IsTop(r) } }
        c == getIndex(current'.x, current'.y)
    IN  (\A t \in ties : c <= t) \/ (\A t \in ties : c >= t)

DrainPit == Drain /\ PitTieOrder

NextPit == Configure \/ SeedCell \/ DrainPit \/ Finish

SpecPit == InitPit /\ [][NextPit]_vars

\* ------------------------------------------------------------- properties
IsData(n) == raw[n] # nodata
Unvisited(n) == ~queued[n] /\ ~processed[n]
Resolved(n) == processed[n] /\ ~queued[n]
Discovered(n) == parent[n] # NoParent

\* The cell touches the raster boundary or a no-data cell of the input.
EdgeCell(n) ==
    \E d \in Dirs :
        LET nx == getNeighbourX(XOf(n), d)
            ny == getNeighbourY(YOf(n), d)
        IN  ~isInBounds(nx, ny) \/ raw[getIndex(nx, ny)] = nodata

\* Number of queue entries of cell n.
EntriesOf(n) ==
    LET own == { q \in BagToSet(queue) : getIndex(q.x, q.y) = n }
    IN  BagCardinality([q \in own |-> queue[q]])

\* Following the discovery edges from n leads, within k steps and through
\* non-no-data neighbours only, to an edge seed.
RECURSIVE ReachedFromSeed(_, _)
ReachedFromSeed(n, k) ==
    /\ IsData(n)
    /\ IF ~Discovered(n) THEN EdgeCell(n)
       ELSE /\ k > 0
            /\ getIndex(getNeighbourX(XOf(parent[n].c), parent[n].d),
                        getNeighbourY(YOf(parent[n].c), parent[n].d)) = n
            /\ ReachedFromSeed(parent[n].c, k - 1)

\* C1 -- Monotonic fill: every resolved non-no-data cell has a filled
\* elevation >= its raw elevation, and at Done so has every non-no-data cell.
C1_MonotonicFill ==
    \A n \in Cells :
        (IsData(n) /\ (Resolved(n) \/ pc = "done")) => elev[n] >= raw[n]

\* A run has ended in which a cell was raised above its raw elevation.
C1_Witness ==
    pc = "done" /\ \E n \in Cells : IsData(n) /\ Resolved(n) /\ elev[n] > raw[n]

\* C2 -- Completeness at Done: when the queue has run empty every non-no-data
\* cell is Resolved, and was reached from an edge seed through 8-connected
\* non-no-data cells.
C2_CompleteAtDone ==
    pc = "done" =>
        \A n \in Cells :
            IsData(n) => Resolved(n) /\ ReachedFromSeed(n, xSize * ySize)

\* A run with a no-data cell has ended in which some cell was not a seed.
C2_Witness ==
    /\ pc = "done"
    /\ \E n \in Cells : Discovered(n)
    /\ \E m \in Cells : ~IsData(m)

\* C3 -- No-data preservation: a no-data cell is never pushed, its elevation
\* is never written (it is still no-data in the filled output) and its flow
\* code is 255 once it has been seeded.
C3_NoDataPreserved ==
    \A n \in Cells :
        ~IsData(n) =>
            /\ elev[n] = nodata
            /\ pushes[n] = 0 /\ writes[n] = 0 /\ pops[n] = 0
            /\ ~queued[n] /\ EntriesOf(n) = 0
            /\ pc \in {"draining", "done"} => flowdir[n] = 255 /\ processed[n]

\* A run has ended on a raster with a no-data cell all of whose in-bounds
\* neighbours have been popped and have scanned it.
C3_Witness ==
    /\ pc = "done"
    /\ \E n \in Cells :
         /\ ~IsData(n)
         /\ \E m \in Cells : IsData(m) /\ pops[m] = 1 /\ EdgeCell(m) /\ ~Discovered(m)
    /\ npop >= 2

\* C4 -- Ascending processing order: the spills popped during Draining never
\* decrease, in plain and in slope-preserving mode, whatever the pixel sizes.
C4_AscendingOrder ==
    npop >= 2 => current.spill >= prevspill

\* C5 -- Per-cell state machine and duplicate suppression: a cell is pushed at
\* most once and popped at most once, never pushed after its pop; the queue
\* holds one entry for each Queued cell and none for any other, so it never
\* holds more than xSize * ySize entries; at Done every non-no-data cell has
\* been pushed exactly once and popped exactly once.
C5_StateMachine ==
    /\ \A n \in Cells :
         /\ pushes[n] <= 1
         /\ pops[n] <= pushes[n]
         /\ queued[n] <=> (pushes[n] = 1 /\ pops[n] = 0)
         /\ EntriesOf(n) = (IF queued[n] THEN 1 ELSE 0)
         /\ IsData(n) => (processed[n] <=> pops[n] = 1)
         /\ (pc = "done" /\ IsData(n)) => (pushes[n] = 1 /\ pops[n] = 1)
    /\ BagCardinality(queue) <= xSize * ySize

\* A discovered cell has been resolved while other cells are still queued.
C5_Witness ==
    /\ pc = "draining"
    /\ \E n \in Cells : Discovered(n) /\ pops[n] = 1
    /\ \E m \in Cells : queued[m]

\* The neighbour of cell n in direction d (an index; used where it is in
\* bounds).
NeighbourOf(n, d) == getIndex(getNeighbourX(XOf(n), d), getNeighbourY(YOf(n), d))
HasNeighbour(n, d) == isInBounds(getNeighbourX(XOf(n), d), getNeighbourY(YOf(n), d))

Max(a, b) == IF a >= b THEN a ELSE b

\* C6 -- Single write of elevations: a cell's elevation is written at most
\* once, when the cell goes Unvisited -> Queued; the elevation of a Queued or
\* Resolved cell never changes, so the spill carried by a queue entry and by
\* the popped node is the cell's elevation, and a seed keeps its raw elevation.
C6_SingleWrite ==
    /\ [](\A n \in Cells :
            /\ writes[n] <= 1
            /\ ~Discovered(n) => (writes[n] = 0 /\ elev[n] = raw[n])
            /\ \A q \in BagToSet(queue) :
                 getIndex(q.x, q.y) = n => q.spill = elev[n]
            /\ (npop >= 1 /\ getIndex(current.x, current.y) = n)
                 => current.spill = elev[n])
    /\ [][\A n \in Cells :
            /\ (queued[n] \/ processed[n]) => elev'[n] = elev[n]
            /\ writes'[n] # writes[n] => (Unvisited(n) /\ queued'[n])]_vars

\* A run has ended in which one discovered cell was written with a new level
\* and another with its own raw elevation.
C6_Witness ==
    /\ pc = "done"
    /\ \E n, m \in Cells :
         /\ writes[n] = 1 /\ elev[n] # raw[n]
         /\ writes[m] = 1 /\ elev[m] = raw[m]

\* C7 -- Slope-preservation lower bound: in slope-preserving mode a cell n
\* discovered from c in direction d has filled(n) = max(raw(n), filled(c) +
\* mindiff(d)) with mindiff(d) > 0, hence filled(n) > filled(c).
C7_SlopeLowerBound ==
    preserve =>
        \A n \in Cells :
            Discovered(n) =>
                LET c == parent[n].c
                    d == parent[n].d
                IN  /\ elev[n] = Max(raw[n], elev[c] + mindiff[d])
                    /\ elev[n] >= elev[c] + mindiff[d]
                    /\ mindiff[d] > 0
                    /\ elev[n] > elev[c]

\* C8 -- No-decrease rule: in plain mode a cell n discovered from c has
\* filled(n) = raw(n) if raw(n) > filled(c), filled(c) otherwise, and so
\* filled(n) >= filled(c).
C8_NoDecrease ==
    ~preserve =>
        \A n \in Cells :
            Discovered(n) =>
                LET c == parent[n].c
                IN  /\ elev[n] = (IF raw[n] > elev[c] THEN raw[n] ELSE elev[c])
                    /\ elev[n] >= elev[c]

\* A plain-mode run has ended in which one cell was raised to its discoverer's
\* level and another kept a raw elevation above its discoverer's.
C8_Witness ==
    /\ pc = "done" /\ ~preserve
    /\ \E n, m \in Cells :
         /\ Discovered(n) /\ raw[n] < elev[parent[n].c] /\ elev[n] = elev[parent[n].c]
         /\ Discovered(m) /\ raw[m] > elev[parent[m].c]

\* C9 -- A negative minimum slope is rejected before the traversal starts: no
\* cell is seeded or popped and no output is produced.
C9_NegativeSlopeRejected ==
    minslope < 0 =>
        /\ pc \notin {"draining", "done"}
        /\ queue = EmptyBag /\ npop = 0
        /\ \A n \in Cells : ~processed[n] /\ ~queued[n] /\ flowdir[n] = 0

\* Every cell that is not an edge cell has a strictly lower neighbour (a
\* strictly descending path leads from it to an edge cell).
DepressionFree ==
    \A n \in Cells :
        (IsData(n) /\ ~EdgeCell(n)) => \E d \in Dirs : raw[NeighbourOf(n, d)] < raw[n]

\* Elevations rise strictly from the edge inward: every cell that is not an
\* edge cell is strictly higher than each edge cell next to it.
IncreasingInward ==
    /\ DepressionFree
    /\ \A n \in Cells :
         (IsData(n) /\ ~EdgeCell(n)) =>
             \A d \in Dirs :
                 EdgeCell(NeighbourOf(n, d)) => raw[NeighbourOf(n, d)] < raw[n]

\* The direction whose output code is k (k one of the 8 direction codes).
DirOfCode(k) == CHOOSE d \in Dirs : ldd[d + 1] = k
DirCodes == { ldd[d + 1] : d \in Dirs }

\* Cell n carries a direction code, and the neighbour it designates is in
\* bounds and not no-data.
FlowTarget(n) == NeighbourOf(n, DirOfCode(flowdir[n]))
HasFlowTarget(n) ==
    /\ flowdir[n] \in DirCodes
    /\ HasNeighbour(n, DirOfCode(flowdir[n]))
    /\ IsData(FlowTarget(n))

AllEdge == \A n \in Cells : IsData(n) => EdgeCell(n)

\* The cell has all of its 8 neighbours inside the raster.
Inner(n) == \A d \in Dirs : HasNeighbour(n, d)

\* C11 -- Boundary closure: on a raster whose non-no-data cells are all edge
\* cells, Seeding queues every one of them; Draining only pops them: it writes
\* no elevation, pushes nothing and discovers no cell, the filled grid equals
\* the input and every non-no-data cell has flow code 255.
C11_BoundaryClosure ==
    (AllEdge /\ pc \in {"draining", "done"}) =>
        /\ \A n \in Cells :
             /\ writes[n] = 0 /\ ~Discovered(n)
             /\ elev[n] = raw[n]
             /\ IsData(n) => (flowdir[n] = 255 /\ pushes[n] = 1)
        /\ BagCardinality(queue) + npop = Cardinality({ n \in Cells : IsData(n) })

\* A run has ended on a raster of edge cells only, one of them a cell inside
\* the raster that is a seed because it lies next to a no-data cell.
C11_Witness ==
    /\ pc = "done" /\ AllEdge
    /\ \E n \in Cells : IsData(n) /\ Inner(n) /\ pops[n] = 1

\* The filled grid the pit scenario expects: the centre at 10, every other
\* cell at its raw elevation.
PitFilled == [n \in 0 .. 24 |-> IF n = 12 THEN 10 * Scale ELSE PitRaw[n]]

DiscoveredFrom(c) == { n \in Cells : Discovered(n) /\ parent[n].c = c }

\* C13 -- Termination: the Draining loop ends (the queue runs empty and the
\* run reaches Done), and has then made at most one pop and at most one
\* elevation write per cell, hence at most xSize * ySize pops, and at most 8
\* discoveries per popped cell (the counts never decrease during a run).
C13_Termination ==
    <>(/\ pc = "done" /\ queue = EmptyBag
       /\ npop <= xSize * ySize
       /\ \A n \in Cells :
            /\ pops[n] <= 1 /\ writes[n] <= 1
            /\ Cardinality(DiscoveredFrom(n)) <= 8)

\* A run has ended in which every cell was popped and one pop discovered
\* several cells.
C13_Witness ==
    /\ pc = "done" /\ queue = EmptyBag
    /\ npop = xSize * ySize
    /\ \E c \in Cells : Cardinality(DiscoveredFrom(c)) >= 2

\* C14 -- Seeding classification: when Seeding has ended (and nothing is
\* popped yet) a cell is Resolved with flow code 255 iff its raw elevation is
\* no-data; a non-no-data cell is Queued, with exactly one queue entry, of
\* spill equal to its raw elevation, and flow code 255, iff it is an edge cell;
\* every other cell is Unvisited with flow code 0 and no queue entry.
C14_SeedingClassification ==
    (pc = "draining" /\ npop = 0) =>
        \A n \in Cells :
            /\ (Resolved(n) /\ flowdir[n] = 255) <=> raw[n] = nodata
            /\ IsData(n) =>
                 /\ (queued[n] /\ ~processed[n]) <=> EdgeCell(n)
                 /\ EdgeCell(n) =>
                      /\ EntriesOf(n) = 1
                      /\ BagIn(node(raw[n], XOf(n), YOf(n)), queue)
                      /\ flowdir[n] = 255
                 /\ ~EdgeCell(n) =>
                      Unvisited(n) /\ flowdir[n] = 0 /\ EntriesOf(n) = 0

\* Seeding has ended on a raster with a no-data cell, a seed inside the raster
\* (next to the no-data cell) and a cell left Unvisited.
C14_Witness ==
    /\ pc = "draining" /\ npop = 0
    /\ \E n \in Cells : ~IsData(n) /\ Resolved(n)
    /\ \E n \in Cells : IsData(n) /\ Inner(n) /\ queued[n]
    /\ \E n \in Cells : IsData(n) /\ Unvisited(n)

\* C15 -- Forced flow direction: a cell n discovered from c in direction d
\* (and not popped yet) carries a flow code iff slope preservation is disabled
\* and raw(n) <= z, z being the spill of c; the code is the output code of the
\* direction (d + 4) mod 8, whose offset is the negation of d's, so that it
\* designates c.  In slope-preserving mode discovery writes no flow code.
C15_ForcedFlow ==
    \A n \in Cells :
        (Discovered(n) /\ queued[n]) =>
            LET c == parent[n].c
                d == parent[n].d
                o == (d + 4) % 8
            IN  /\ flowdir[n] # 0 <=> (~preserve /\ raw[n] <= elev[c])
                /\ flowdir[n] # 0 =>
                     /\ flowdir[n] = ldd[o + 1]
                     /\ ngh[o + 1].dx = 0 - ngh[d + 1].dx
                     /\ ngh[o + 1].dy = 0 - ngh[d + 1].dy
                     /\ HasFlowTarget(n) /\ FlowTarget(n) = c
                /\ preserve => flowdir[n] = 0

\* In a plain-mode run two discovered cells are queued, one with a forced
\* flow code, the other (higher than its discoverer) without.
C15_Witness ==
    /\ ~preserve /\ pc = "draining"
    /\ \E n, m \in Cells :
         /\ Discovered(n) /\ queued[n] /\ flowdir[n] \in DirCodes
         /\ Discovered(m) /\ queued[m] /\ flowdir[m] = 0

\* The popped cell received its flow code from the lazy scan: it was
\* discovered (a seed carries 255) and its code was not forced at discovery.
LazilyEncoded(c) ==
    /\ npop >= 1 /\ c = getIndex(current.x, current.y)
    /\ Discovered(c)
    /\ preserve \/ raw[c] > elev[parent[c].c]

\* The directions of the drain candidates of cell c at spill z: in-bounds
\* neighbours that are Resolved and not higher than z.
DrainCandidates(c, z) ==
    { d \in Dirs : /\ HasNeighbour(c, d)
                   /\ Resolved(NeighbourOf(c, d))
                   /\ elev[NeighbourOf(c, d)] <= z }

\* The gradient towards d is greater than the gradient towards e.
SteeperThan(c, z, d, e) ==
    RatGreater(z - elev[NeighbourOf(c, d)], length[d],
               z - elev[NeighbourOf(c, e)], length[e])

\* The direction of steepest descent among the candidates, the lowest index
\* among equal gradients; 8 when there is no candidate.
SteepestDir(c, z) ==
    IF DrainCandidates(c, z) = {} THEN 8
    ELSE CHOOSE d \in DrainCandidates(c, z) :
            \A e \in DrainCandidates(c, z) :
                /\ ~SteeperThan(c, z, e, d)
                /\ e < d => SteeperThan(c, z, d, e)

\* C16 -- Flow Encoder selection: a popped cell whose code was still 0 after
\* the expansion of its neighbours receives the code of the direction that
\* maximises (z - filled(n_d)) / length(d) over the in-bounds, Resolved
\* neighbours with filled(n_d) <= z, z being the cell's spill as stored in the
\* filled grid; the lowest direction index wins among equal gradients; cells
\* queued by this pop are no candidates.
C16_FlowSelection ==
    \A c \in Cells :
        LazilyEncoded(c) =>
            /\ current.spill = elev[c]
            /\ flowdir[c] = ldd[SteepestDir(c, elev[c]) + 1]

\* C17 -- No flat sentinel at Done: whenever the lazy scan runs for a popped
\* cell, the neighbour that discovered the cell is Resolved and not higher
\* than the cell's spill, so the scan assigns a direction; after Done every
\* non-no-data cell has code 255 or one of the 8 direction codes, never 0, in
\* both spill modes and for every pixel size.
C17_NoFlatAtDone ==
    /\ \A c \in Cells :
         LazilyEncoded(c) =>
             /\ Resolved(parent[c].c) /\ elev[parent[c].c] <= elev[c]
             /\ flowdir[c] \in DirCodes
    /\ pc = "done" =>
         \A n \in Cells : IsData(n) => flowdir[n] \in ({255} \cup DirCodes)

\* The non-no-data neighbours of cell n.
DataNeighbours(n) ==
    { NeighbourOf(n, d) : d \in { e \in Dirs : HasNeighbour(n, e) } }
        \cap { m \in Cells : IsData(m) }

\* The raw elevations that occur in the raster.
Levels == { raw[n] : n \in { m \in Cells : IsData(m) } }

\* The cells from which an edge seed is reached by an 8-connected path of
\* non-no-data cells none of which is higher than v: the closure of S under
\* 'a neighbour not higher than v'.
RECURSIVE PathsBelow(_, _)
PathsBelow(S, v) ==
    LET grown == S \cup { m \in Cells : /\ IsData(m) /\ raw[m] <= v
                                        /\ DataNeighbours(m) \cap S # {} }
    IN  IF grown = S THEN S ELSE PathsBelow(grown, v)

Drains(v) ==
    PathsBelow({ n \in Cells : IsData(n) /\ EdgeCell(n) /\ raw[n] <= v }, v)

\* C18 -- Least-cost spill (plain mode): at Done the filled elevation of every
\* non-no-data cell is the minimum, over the 8-connected paths of non-no-data
\* cells from it to an edge seed, of the highest raw elevation on the path,
\* however the ties between equal spills were popped.  That minimum is the
\* least level v, among the raw elevations, with a path not higher than v.
C18_LeastCostSpill ==
    (pc = "done" /\ ~preserve) =>
        /\ \A n \in Cells : IsData(n) => elev[n] \in Levels
        /\ \A v \in Levels : \A drained \in {Drains(v)} :
             \A n \in Cells : IsData(n) => (elev[n] <= v <=> n \in drained)

\* A plain-mode run has ended in which a cell was raised, to a level above
\* the lowest edge seed.
C18_Witness ==
    /\ pc = "done" /\ ~preserve
    /\ \E n, m \in Cells :
         /\ IsData(n) /\ elev[n] > raw[n]
         /\ IsData(m) /\ EdgeCell(m) /\ raw[m] < elev[n]

\* Following the flow codes from cell n leads, within k steps, to an edge seed
\* with code 255; every cell on the way designates a non-no-data neighbour
\* inside the raster.
RECURSIVE FlowsOut(_, _)
FlowsOut(n, k) ==
    IF flowdir[n] = 255 THEN IsData(n) /\ EdgeCell(n)
    ELSE k > 0 /\ HasFlowTarget(n) /\ FlowsOut(FlowTarget(n), k - 1)

\* C19 -- Flow paths drain to an outlet: the neighbour a direction code
\* designates is inside the raster, is not no-data, is not higher than the
\* cell in the filled grid, and is Resolved when the code is written, that is
\* strictly earlier than the cell (a forced code designates the popped cell
\* while the cell is still queued; a lazily assigned one is written at the
\* cell's own pop); at Done the flow codes lead from every non-no-data cell,
\* without a cycle, to an edge seed with code 255.
C19_FlowPathsDrain ==
    /\ \A n \in Cells :
         (IsData(n) /\ flowdir[n] \in DirCodes) =>
             /\ HasFlowTarget(n)
             /\ FlowTarget(n) # n
             /\ Resolved(FlowTarget(n))
             /\ elev[FlowTarget(n)] <= elev[n]
             /\ queued[n] => FlowTarget(n) = parent[n].c
    /\ pc = "done" =>
         \A n \in Cells : IsData(n) => FlowsOut(n, xSize * ySize)

====
